---------------------------- MODULE Spec2Model ----------------------------
(***************************************************************************)
(* Model of src/processamento.py: the two detectors                        *)
(* (detectar_desmatamento, detectar_focos_incendio) and the DetectorApp    *)
(* shell that drives them.                                                 *)
(*                                                                         *)
(* An image is a record [w, h, px] with px[y][x] = <<b, g, r>> (the        *)
(* channel order cv2.imread yields), rows 0..h-1 and columns 0..w-1; a     *)
(* mask is a function m[y][x] \in BOOLEAN over the same grid (TRUE = 255). *)
(* The cv2 calls are modelled by what OpenCV computes for 8-bit images:    *)
(* the fixed-point BGR->HSV conversion, the 5x5 binomial Gaussian kernel   *)
(* with reflect-101 borders, erosion/dilation with the default border      *)
(* value, outermost connected components and Green's-formula areas.        *)
(***************************************************************************)
EXTENDS Integers, FiniteSets, Sequences, TLC

VARIABLES
    app,    \* the DetectorApp widget state (fields named as in the code)
    det,    \* a caller's buffer and what the two detectors returned for it
    morph,  \* one cv2.morphologyEx call: src, op, first pass, dst
    pix,    \* one pixel through the fire detector's thresholds
    disco   \* the paths that still hold a readable file

vars == <<app, det, morph, pix, disco>>

None == "None"

\* Evaluate a function or set once (TLC keeps it lazy otherwise).
Force(v) == IF v = v THEN v ELSE v

Max2(a, b) == IF a >= b THEN a ELSE b
Min2(a, b) == IF a <= b THEN a ELSE b

Rows(img) == 0..(img.h - 1)
Cols(img) == 0..(img.w - 1)

(***************************************************************************)
(* cv2.cvtColor(..., COLOR_BGR2HSV) on 8-bit pixels (OpenCV's RGB2HSV_b):  *)
(* v = max, s = diff * sdiv_table[v], h = sector term * hdiv_table[diff],  *)
(* both in 12-bit fixed point and rounded; h is in 0..179.                 *)
(***************************************************************************)
hsv_shift == 12

RoundDiv(n, d) == (2 * n + d) \div (2 * d)

RECURSIVE Pow2(_)
Pow2(n) == IF n = 0 THEN 1 ELSE 2 * Pow2(n - 1)

sdiv_table(i) == IF i = 0 THEN 0 ELSE RoundDiv(255 * Pow2(hsv_shift), i)

hdiv_table(i) == IF i = 0 THEN 0 ELSE RoundDiv(180 * Pow2(hsv_shift), 6 * i)

BGR2HSV(p) ==
    LET b == p[1]
        g == p[2]
        r == p[3]
        v == Max2(b, Max2(g, r))
        vmin == Min2(b, Min2(g, r))
        diff == v - vmin
        s == (diff * sdiv_table(v) + Pow2(hsv_shift - 1)) \div Pow2(hsv_shift)
        h0 == IF v = r THEN g - b
              ELSE IF v = g THEN b - r + 2 * diff
              ELSE r - g + 4 * diff
        h1 == (h0 * hdiv_table(diff) + Pow2(hsv_shift - 1)) \div Pow2(hsv_shift)
        h == IF h1 < 0 THEN h1 + 180 ELSE h1
    IN <<h, s, v>>

cvtColor(img) ==
    [w |-> img.w, h |-> img.h,
     px |-> Force([y \in Rows(img) |-> [x \in Cols(img) |-> BGR2HSV(img.px[y][x])]])]

(***************************************************************************)
(* cv2.inRange: 255 where every channel lies within the inclusive bounds.  *)
(***************************************************************************)
InRangePx(p, lower, upper) == \A c \in 1..3 : lower[c] <= p[c] /\ p[c] <= upper[c]

inRange(hsv, lower, upper) ==
    Force([y \in Rows(hsv) |-> [x \in Cols(hsv) |-> InRangePx(hsv.px[y][x], lower, upper)]])

bitwise_or(a, b) == Force([y \in DOMAIN a |-> [x \in DOMAIN a[y] |-> a[y][x] \/ b[y][x]]])

bitwise_and(a, b) == Force([y \in DOMAIN a |-> [x \in DOMAIN a[y] |-> a[y][x] /\ b[y][x]]])

\* detectar_desmatamento, lines 22-23
lower_solo == <<10, 40, 40>>
upper_solo == <<30, 255, 255>>

\* detectar_focos_incendio, lines 57-73
lower_hue1 == <<0, 0, 0>>
upper_hue1 == <<20, 255, 255>>
lower_hue2 == <<170, 0, 0>>
upper_hue2 == <<180, 255, 255>>
MIN_BRIGHTNESS == 215
lower_val == <<0, 0, MIN_BRIGHTNESS>>
upper_val == <<180, 255, 255>>

\* The same with the first hue range only.
MascarasFogoSemFaixa2(hsv) ==
    LET mask_hue == inRange(hsv, lower_hue1, upper_hue1)
        mask_val == inRange(hsv, lower_val, upper_val)
    IN [mask_hue |-> mask_hue, mask_val |-> mask_val,
        mascara_final |-> bitwise_and(mask_hue, mask_val)]

\* Lines 57-78: hue mask (two ranges, OR) AND brightness mask.
MascarasFogo(hsv) ==
    LET mask_hue1 == inRange(hsv, lower_hue1, upper_hue1)
        mask_hue2 == inRange(hsv, lower_hue2, upper_hue2)
        mask_hue == bitwise_or(mask_hue1, mask_hue2)
        mask_val == inRange(hsv, lower_val, upper_val)
    IN [mask_hue |-> mask_hue, mask_val |-> mask_val,
        mascara_final |-> bitwise_and(mask_hue, mask_val)]

(***************************************************************************)
(* cv2.GaussianBlur(imagem, (5, 5), 0), line 52.  For an 8-bit image and a *)
(* 5-tap kernel with sigma 0 OpenCV uses the fixed kernel 1/16 [1 4 6 4 1] *)
(* in 8.8 fixed point: a horizontal pass (exact), a vertical pass, one     *)
(* rounding at the end.  Borders are BORDER_REFLECT_101.                   *)
(***************************************************************************)
RECURSIVE Reflect101(_, _)
Reflect101(p, len) ==
    IF len = 1 THEN 0
    ELSE IF p < 0 THEN Reflect101(-p, len)
    ELSE IF p >= len THEN Reflect101(2 * len - 2 - p, len)
    ELSE p

GaussianBlur(img) ==
    LET rx(x) == Reflect101(x, img.w)
        ry(y) == Reflect101(y, img.h)
        hor == Force([y \in Rows(img) |-> [x \in Cols(img) |-> [c \in 1..3 |->
                   16 * img.px[y][rx(x - 2)][c] + 64 * img.px[y][rx(x - 1)][c]
                 + 96 * img.px[y][x][c]
                 + 64 * img.px[y][rx(x + 1)][c] + 16 * img.px[y][rx(x + 2)][c]]]])
        ver(x, y, c) ==
                   16 * hor[ry(y - 2)][x][c] + 64 * hor[ry(y - 1)][x][c]
                 + 96 * hor[y][x][c]
                 + 64 * hor[ry(y + 1)][x][c] + 16 * hor[ry(y + 2)][x][c]
    IN [w |-> img.w, h |-> img.h,
        px |-> Force([y \in Rows(img) |-> [x \in Cols(img) |->
                 <<(ver(x, y, 1) + 32768) \div 65536,
                   (ver(x, y, 2) + 32768) \div 65536,
                   (ver(x, y, 3) + 32768) \div 65536>>]])]

(***************************************************************************)
(* cv2.morphologyEx(mask, op, kernel) with kernel = np.ones((5,5)): the    *)
(* anchor is the centre, so the neighbourhood of (x, y) is                 *)
(* x-2..x+2 by y-2..y+2.  No borderValue is passed, so OpenCV uses         *)
(* morphologyDefaultBorderValue(): pixels outside the image read as the    *)
(* maximum (255) in an erosion and as the minimum (0) in a dilation.       *)
(***************************************************************************)
KSIZE == 5

Raio == KSIZE \div 2

MaskRows(m) == DOMAIN m
MaskCols(m) == IF DOMAIN m = {} THEN {} ELSE DOMAIN m[0]

\* Background outside the image, in an erosion too.
ErodeBorderFundo == FALSE

\* The value an erosion reads outside the image.
ErodeBorderValue == TRUE

\* The value a dilation reads outside the image.
DilateBorderValue == FALSE

MaskAt(m, x, y, borderValue) ==
    IF y \in MaskRows(m) /\ x \in MaskCols(m) THEN m[y][x] ELSE borderValue

erode(m) ==
    Force([y \in MaskRows(m) |-> [x \in MaskCols(m) |->
        \A dy \in -Raio..Raio : \A dx \in -Raio..Raio :
            MaskAt(m, x + dx, y + dy, ErodeBorderValue)]])

\* A dilation with a 3x3 neighbourhood.
dilate3x3(m) ==
    Force([y \in MaskRows(m) |-> [x \in MaskCols(m) |->
        \E dy \in -1..1 : \E dx \in -1..1 :
            MaskAt(m, x + dx, y + dy, DilateBorderValue)]])

dilate(m) ==
    Force([y \in MaskRows(m) |-> [x \in MaskCols(m) |->
        \E dy \in -Raio..Raio : \E dx \in -Raio..Raio :
            MaskAt(m, x + dx, y + dy, DilateBorderValue)]])

\* The passes of one morphologyEx call: pass1 is the intermediate image.
morphologyEx(src, op) ==
    CASE op = "MORPH_OPEN"   -> LET t == erode(src)  IN [pass1 |-> t, dst |-> dilate(t)]
      [] op = "MORPH_CLOSE"  -> LET t == dilate(src) IN [pass1 |-> t, dst |-> erode(t)]
      [] op = "MORPH_DILATE" -> LET t == dilate(src) IN [pass1 |-> t, dst |-> t]

(***************************************************************************)
(* cv2.findContours(mask, RETR_EXTERNAL, CHAIN_APPROX_SIMPLE).  Foreground *)
(* is 8-connected and background 4-connected.  Only the outer border of a  *)
(* component that lies in no other component's hole is returned.  A        *)
(* contour is represented by the pixels on or inside it (the component     *)
(* with its holes filled); the points cv2 returns are the border of that   *)
(* set.                                                                    *)
(***************************************************************************)
Fg(m) == Force(UNION {{<<x, y>> : x \in {c \in MaskCols(m) : m[y][c]}} : y \in MaskRows(m)})

Viz4(p) == {<<p[1] - 1, p[2]>>, <<p[1] + 1, p[2]>>, <<p[1], p[2] - 1>>, <<p[1], p[2] + 1>>}

Viz8(p) == Viz4(p) \cup {<<p[1] - 1, p[2] - 1>>, <<p[1] + 1, p[2] - 1>>,
                         <<p[1] - 1, p[2] + 1>>, <<p[1] + 1, p[2] + 1>>}

\* The pixels of S reachable from the frontier (conn = 4 or 8).
RECURSIVE Cresce(_, _, _, _)
Cresce(front, vis, S, conn) ==
    IF front = {} THEN vis
    ELSE LET viz == UNION {IF conn = 8 THEN Viz8(p) ELSE Viz4(p) : p \in front}
             nova == (viz \cap S) \ vis
         IN Cresce(nova, vis \cup nova, S, conn)

RECURSIVE Componentes(_)
Componentes(S) ==
    IF S = {} THEN {}
    ELSE LET p == CHOOSE q \in S : TRUE
             c == Cresce({p}, {p}, S, 8)
         IN {c} \cup Componentes(S \ c)

\* A component with its holes: what the background cannot reach from outside.
Preenchido(c, w, h) ==
    LET quadro == {<<x, y>> : x \in -1..w, y \in -1..h}
        fora == Cresce({<<-1, -1>>}, {<<-1, -1>>}, quadro \ c, 4)
    IN quadro \ fora

\* RETR_EXTERNAL: the components that lie inside no other one.
ContornosExternos(m) ==
    LET w == Cardinality(MaskCols(m))
        h == Cardinality(MaskRows(m))
        comps == Componentes(Fg(m))
        cheios == {Preenchido(c, w, h) : c \in comps}
    IN {f \in cheios : \A g \in cheios : g = f \/ ~(f \subseteq g)}

\* As cv2.RETR_LIST would: every component's outer border, nested or not,
\* and the border around each component's holes.
ContornosLista(m) ==
    LET w == Cardinality(MaskCols(m))
        h == Cardinality(MaskRows(m))
        comps == Componentes(Fg(m))
        buracos == {Preenchido(c, w, h) \ c : c \in comps} \ {{}}
    IN {Preenchido(c, w, h) : c \in comps}
       \cup {b \cup UNION {Viz8(p) : p \in b} : b \in buracos}

findContours(m) == ContornosExternos(m)

\* cv2.boundingRect: the upright box of the contour's points.
SetMin(S) == CHOOSE a \in S : \A b \in S : a <= b
SetMax(S) == CHOOSE a \in S : \A b \in S : a >= b

boundingRect(c) ==
    LET xs == {p[1] : p \in c}
        ys == {p[2] : p \in c}
    IN [x |-> SetMin(xs), y |-> SetMin(ys),
        w |-> SetMax(xs) - SetMin(xs) + 1, h |-> SetMax(ys) - SetMin(ys) + 1]

(***************************************************************************)
(* cv2.contourArea: Green's formula over the contour polygon, whose        *)
(* vertices are pixel centres.  Of each unit cell between four             *)
(* neighbouring pixel centres the polygon covers all when the four are on  *)
(* or inside the contour, half when exactly three are, nothing otherwise.  *)
(* contourArea2 is twice the area (the area may be a half-integer).        *)
(***************************************************************************)
Cantos(x, y) == {<<x, y>>, <<x + 1, y>>, <<x, y + 1>>, <<x + 1, y + 1>>}

\* The number of pixels on or inside the contour, doubled.
contourPixels2(c) == 2 * Cardinality(c)

contourArea2(c) ==
    LET r == boundingRect(c)
        celulas == {<<x, y>> : x \in r.x..(r.x + r.w - 2), y \in r.y..(r.y + r.h - 2)}
        n == [p \in celulas |-> Cardinality(Cantos(p[1], p[2]) \cap c)]
    IN 2 * Cardinality({p \in celulas : n[p] = 4}) + Cardinality({p \in celulas : n[p] = 3})

(***************************************************************************)
(* cv2.rectangle(img, (x, y), (x+w, y+h), color, 2) and cv2.putText, which *)
(* write into the buffer they are given and clip to it.  A stroke of       *)
(* thickness 2 covers one pixel on each side of the line.  The label is    *)
(* modelled by the box of its text (origin at the baseline's left end),    *)
(* not glyph by glyph.                                                     *)
(***************************************************************************)
NoTraco(px, py, x0, y0, x1, y1) ==
    \/ px \in x0..x1 /\ (py \in (y0 - 1)..(y0 + 1) \/ py \in (y1 - 1)..(y1 + 1))
    \/ py \in y0..y1 /\ (px \in (x0 - 1)..(x0 + 1) \/ px \in (x1 - 1)..(x1 + 1))

\* A drawing that enlarges the canvas instead of clipping.
rectangle_sem_recorte(img, x0, y0, x1, y1, color) ==
    [nd |-> TRUE, w |-> Max2(img.w, x1 + 2), h |-> Max2(img.h, y1 + 2),
     px |-> Force([y \in 0..(Max2(img.h, y1 + 2) - 1) |-> [x \in 0..(Max2(img.w, x1 + 2) - 1) |->
                IF NoTraco(x, y, x0, y0, x1, y1) THEN color
                ELSE IF y \in Rows(img) /\ x \in Cols(img) THEN img.px[y][x] ELSE <<0, 0, 0>>]])]

rectangle(img, x0, y0, x1, y1, color) ==
    [nd |-> TRUE, w |-> img.w, h |-> img.h,
     px |-> Force([y \in Rows(img) |-> [x \in Cols(img) |->
                IF NoTraco(x, y, x0, y0, x1, y1) THEN color ELSE img.px[y][x]]])]

putText(img, text, orgx, orgy, color) ==
    [nd |-> TRUE, w |-> img.w, h |-> img.h,
     px |-> Force([y \in Rows(img) |-> [x \in Cols(img) |->
                IF x \in (orgx - 1)..(orgx + 13 * Len(text)) /\ y \in (orgy - 16)..(orgy + 1)
                THEN color ELSE img.px[y][x]]])]

\* The loop body of lines 37-39 / 94-96 for every kept contour.
RECURSIVE Anotar(_, _, _, _)
Anotar(img, contornos, color, text) ==
    IF contornos = {} THEN img
    ELSE LET c == CHOOSE k \in contornos : TRUE
             r == boundingRect(c)
             a == rectangle(img, r.x, r.y, r.x + r.w, r.y + r.h, color)
             b == putText(a, text, r.x, r.y - 10, color)
         IN Anotar(b, contornos \ {c}, color, text)

(***************************************************************************)
(* Buffers.  None (no ndarray) and an ndarray with a zero dimension are    *)
(* what cv2 rejects: cvtColor and GaussianBlur raise cv2.error on them.    *)
(***************************************************************************)
ImgNone == [nd |-> FALSE, w |-> 0, h |-> 0, px |-> <<>>]

\* A check for None only.
ValidaSoNone(img) == img.nd

Valida(img) == img.nd /\ img.w > 0 /\ img.h > 0

\* imagem.copy(): a new buffer holding the same pixels.  mem names the
\* buffers of one call; the result says which buffer the drawing goes to.
\* imagem_resultado = imagem: a second name for the caller's buffer.
ndarray_alias(mem) == [mem |-> mem, alvo |-> "imagem"]

ndarray_copy(mem) ==
    [mem |-> [mem EXCEPT !.imagem_resultado = mem.imagem], alvo |-> "imagem_resultado"]

\* The drawing loop writes into mem[alvo] (cv2.rectangle and cv2.putText
\* modify their first argument in place).
DesenharEm(mem, alvo, contornos, color, text) ==
    IF alvo = "imagem"
    THEN [mem EXCEPT !.imagem = Anotar(@, contornos, color, text)]
    ELSE [mem EXCEPT !.imagem_resultado = Anotar(@, contornos, color, text)]

AREA_MIN_SOLO == 500

MIN_AREA == 30

Amarelo == <<0, 255, 255>>

Vermelho == <<0, 0, 255>>

\* area_total_desmatada += area over the kept contours (line 40), doubled.
RECURSIVE SomaAreas2(_)
SomaAreas2(S) ==
    IF S = {} THEN 0
    ELSE LET c == CHOOSE k \in S : TRUE IN contourArea2(c) + SomaAreas2(S \ {c})

\* Lines 17-43.  area_total_desmatada is returned doubled (total2).
detectar_desmatamento(imagem) ==
    IF ~Valida(imagem) THEN [estado |-> "erro", imagem |-> imagem]
    ELSE LET hsv == cvtColor(imagem)
             mascara0 == inRange(hsv, lower_solo, upper_solo)
             mascara1 == morphologyEx(mascara0, "MORPH_OPEN").dst
             mascara_solo == morphologyEx(mascara1, "MORPH_CLOSE").dst
             contornos == findContours(mascara_solo)
             cp == ndarray_copy([imagem |-> imagem, imagem_resultado |-> ImgNone])
             mantidos == {c \in contornos : contourArea2(c) > 2 * AREA_MIN_SOLO}
             mem == DesenharEm(cp.mem, cp.alvo, mantidos, Amarelo, "Desmatamento")
         IN [estado |-> "ok", imagem |-> mem.imagem,
             imagem_resultado |-> mem[cp.alvo],
             total2 |-> SomaAreas2(mantidos),
             mascara |-> mascara_solo, contornos |-> contornos, mantidos |-> mantidos]

\* Lines 80-93: clean the candidate mask, find the contours, keep the big ones.
\* The same without the dilation pass of line 83.
FocosSemDilatacao(mascara0) ==
    LET mascara1 == morphologyEx(mascara0, "MORPH_OPEN").dst
        contornos == findContours(mascara1)
    IN [mascara |-> mascara1, contornos |-> contornos,
        mantidos |-> {c \in contornos : contourArea2(c) > 2 * MIN_AREA}]

FocosDaMascara(mascara0) ==
    LET mascara1 == morphologyEx(mascara0, "MORPH_OPEN").dst
        mascara_final == morphologyEx(mascara1, "MORPH_DILATE").dst
        contornos == findContours(mascara_final)
    IN [mascara |-> mascara_final, contornos |-> contornos,
        mantidos |-> {c \in contornos : contourArea2(c) > 2 * MIN_AREA}]

\* Lines 46-98.
detectar_focos_incendio(imagem) ==
    IF ~Valida(imagem) THEN [estado |-> "erro", imagem |-> imagem]
    ELSE LET blurred == GaussianBlur(imagem)
             hsv == cvtColor(blurred)
             mascara0 == MascarasFogo(hsv).mascara_final
             f == FocosDaMascara(mascara0)
             mantidos == f.mantidos
             cp == ndarray_copy([imagem |-> imagem, imagem_resultado |-> ImgNone])
             mem == DesenharEm(cp.mem, cp.alvo, mantidos, Vermelho, "Foco de Incendio")
         IN [estado |-> "ok", imagem |-> mem.imagem,
             imagem_resultado |-> mem[cp.alvo],
             focos_encontrados |-> Cardinality(mantidos),
             candidatos |-> mascara0,
             mascara |-> f.mascara, contornos |-> f.contornos, mantidos |-> mantidos]

(***************************************************************************)
(* Input images.  A scene is a background colour and a sequence of solid   *)
(* rectangles (later ones on top); Render makes the pixel buffer.          *)
(***************************************************************************)
Preto == <<0, 0, 0>>
Cinza == <<128, 128, 128>>
Cinza214 == <<214, 214, 214>>
Verde == <<0, 255, 0>>
Branco == <<255, 255, 255>>
BrancoQuente == <<225, 235, 255>>
BrancoRosado == <<229, 225, 255>>
BrancoEsverdeado == <<225, 255, 225>>
Ocre == <<62, 121, 150>>

Mancha(x, y, w, h, cor) == [x |-> x, y |-> y, w |-> w, h |-> h, cor |-> cor]

Cena(tipo, w, h, fundo, manchas) ==
    [tipo |-> tipo, w |-> w, h |-> h, fundo |-> fundo, manchas |-> manchas]

CenaInicial == Cena("inicial", 0, 0, Preto, <<>>)
CenaNone == Cena("None", 0, 0, Preto, <<>>)

RECURSIVE CorEm(_, _, _, _)
CorEm(c, x, y, i) ==
    IF i = 0 THEN c.fundo
    ELSE LET m == c.manchas[i]
         IN IF x \in m.x..(m.x + m.w - 1) /\ y \in m.y..(m.y + m.h - 1)
            THEN m.cor ELSE CorEm(c, x, y, i - 1)

Render(c) ==
    IF c.tipo # "ndarray" THEN ImgNone
    ELSE [nd |-> TRUE, w |-> c.w, h |-> c.h,
          px |-> Force([y \in 0..(c.h - 1) |-> [x \in 0..(c.w - 1) |->
                           CorEm(c, x, y, Len(c.manchas))]])]

\* Sides of the square test images.
LadoSolo == 36
LadoFogo == 16
LadoAninhada == 31

Quadrado(lado, fundo, n, pos, cor) ==
    Cena("ndarray", lado, lado, fundo, <<Mancha(pos, pos, n, n, cor)>>)

\* One soil-coloured square on mid-gray; offsets 0 and 2 put it at or near the border.
CenasSolo ==
    {Quadrado(LadoSolo, Cinza, n, 3, Ocre) : n \in {10, 23, 24, 30}}
    \cup {Quadrado(LadoSolo, Cinza, n, pos, Ocre) : n \in {23, 30}, pos \in {0, 2}}
    \cup {Quadrado(LadoSolo, Cinza, LadoSolo, 0, Ocre)}
    \cup {Cena("ndarray", LadoSolo, LadoSolo, Ocre, <<Mancha(6, 6, 24, 24, Cinza)>>)}

FundosFogo == {Preto, Cinza, Cinza214, Verde}

CoresMancha == {Branco, BrancoQuente, BrancoRosado, BrancoEsverdeado}

\* One bright 4x4 or 8x8 patch.
CenasFogo ==
    {Quadrado(LadoFogo, fundo, n, pos, cor) :
        fundo \in FundosFogo, n \in {4, 8}, pos \in {0, 1, 4}, cor \in CoresMancha}

\* A white frame with a separate white blob inside its hole, on black.
CenaAninhada ==
    Cena("ndarray", LadoAninhada, LadoAninhada, Preto,
         <<Mancha(1, 1, 29, 29, Branco), Mancha(8, 8, 15, 15, Preto),
           Mancha(12, 12, 7, 7, Branco)>>)

\* A soil square and, in the bottom-right corner, a white patch.
CenaMista ==
    Cena("ndarray", LadoSolo, LadoSolo, Cinza,
         <<Mancha(3, 3, 24, 24, Ocre), Mancha(LadoSolo - 8, LadoSolo - 8, 8, 8, Branco)>>)

\* No ndarray at all, and ndarrays with a zero dimension.
CenasInvalidas ==
    {CenaNone, Cena("ndarray", 0, 0, Preto, <<>>),
     Cena("ndarray", 0, 3, Preto, <<>>), Cena("ndarray", 3, 0, Preto, <<>>)}

Cenas == CenasSolo \cup CenasFogo \cup {CenaAninhada, CenaMista} \cup CenasInvalidas

(***************************************************************************)
(* Direct calls of the two module-level functions on a caller's buffer.    *)
(* det.imagem is the caller's buffer, as it is after the calls made so     *)
(* far; det.cena records how it was made.                                  *)
(***************************************************************************)
NaoChamado == [estado |-> "nao_chamado"]

DetInit == [cena |-> CenaInicial, imagem |-> ImgNone,
            ret_desmat |-> NaoChamado, ret_focos |-> NaoChamado]

CarregarDe(S) ==
    /\ det.cena = CenaInicial
    /\ \E c \in S :
         det' = [cena |-> c, imagem |-> Render(c),
                 ret_desmat |-> NaoChamado, ret_focos |-> NaoChamado]
    /\ UNCHANGED <<app, morph, pix, disco>>

\* What the caller holds after a call: the buffer (the callee may have
\* written to it) and the returned tuple, or the raised error.
Retorno(r) ==
    IF r.estado = "erro" THEN [estado |-> "erro"]
    ELSE [f \in DOMAIN r \ {"imagem"} |-> r[f]]

ChamarDesmatamento ==
    /\ det.cena # CenaInicial
    /\ det.ret_desmat = NaoChamado
    /\ LET r == detectar_desmatamento(det.imagem)
       IN det' = [det EXCEPT !.imagem = r.imagem, !.ret_desmat = Retorno(r)]
    /\ UNCHANGED <<app, morph, pix, disco>>

ChamarFocos ==
    /\ det.cena # CenaInicial
    /\ det.ret_focos = NaoChamado
    /\ LET r == detectar_focos_incendio(det.imagem)
       IN det' = [det EXCEPT !.imagem = r.imagem, !.ret_focos = Retorno(r)]
    /\ UNCHANGED <<app, morph, pix, disco>>

Carregar == CarregarDe(Cenas)

(***************************************************************************)
(* DetectorApp.  A QLabel showing an image is [pixmap |-> TRUE, img];      *)
(* one showing text is [pixmap |-> FALSE, texto].  A result label is       *)
(* empty or shows a number; origem is the path whose image the displayed   *)
(* results were computed from.  erro says that the last handler showed     *)
(* QMessageBox.critical.                                                   *)
(***************************************************************************)
LadoArquivoFogo == 12
LadoArquivoSolo == 26

Arquivos ==
    [fogo |-> Quadrado(LadoArquivoFogo, Preto, 8, 2, Branco),
     cinza |-> Cena("ndarray", 8, 8, Cinza, <<>>),
     solo |-> Cena("ndarray", LadoArquivoSolo, LadoArquivoSolo, Ocre, <<>>),
     notas |-> CenaNone]

Caminhos == DOMAIN Arquivos

\* cv2.imread: the decoded image, or None when the file cannot be read.
imread(caminho) ==
    IF caminho \in disco THEN Render(Arquivos[caminho]) ELSE ImgNone

Texto(t) == [pixmap |-> FALSE, texto |-> t, img |-> ImgNone]

\* converter_cv2_para_qpixmap, lines 214-219: BGR to RGB, then a QPixmap
\* (the on-screen scaling of .scaled(...) is not represented).
converter_cv2_para_qpixmap(imagem_cv) ==
    [pixmap |-> TRUE, texto |-> "",
     img |-> [nd |-> TRUE, w |-> imagem_cv.w, h |-> imagem_cv.h,
              px |-> Force([y \in Rows(imagem_cv) |-> [x \in Cols(imagem_cv) |->
                         <<imagem_cv.px[y][x][3], imagem_cv.px[y][x][2],
                           imagem_cv.px[y][x][1]>>]])]]

Vazio == [vazio |-> TRUE, valor |-> 0]

Mostra(n) == [vazio |-> FALSE, valor |-> n]

\* __init__, lines 104-171.
AppInit ==
    [caminho_imagem |-> None, lbl_caminho |-> "Nenhuma imagem selecionada",
     btn_processar |-> FALSE,
     lbl_img_original |-> Texto("Imagem Original"),
     lbl_img_desmatamento |-> Texto("Resultado Desmatamento"),
     lbl_img_incendio |-> Texto("Resultado Incendio"),
     lbl_resultado_desmatamento |-> Vazio,
     lbl_resultado_incendio |-> Vazio,
     origem |-> None, erro |-> FALSE]

\* Resets the three image labels but leaves the two result labels alone.
limpar_so_imagens(self) ==
    [self EXCEPT !.lbl_img_original = Texto("Imagem Original"),
                 !.lbl_img_desmatamento = Texto("Resultado Desmatamento"),
                 !.lbl_img_incendio = Texto("Resultado Incendio")]

\* Lines 187-192.
limpar_resultados(self) ==
    [self EXCEPT !.lbl_img_original = Texto("Imagem Original"),
                 !.lbl_img_desmatamento = Texto("Resultado Desmatamento"),
                 !.lbl_img_incendio = Texto("Resultado Incendio"),
                 !.lbl_resultado_desmatamento = Vazio,
                 !.lbl_resultado_incendio = Vazio,
                 !.origem = None]

\* Lines 173-185; caminho = "" is a cancelled dialog.
selecionar_e_exibir_imagem(self, caminho) ==
    IF caminho = "" THEN self
    ELSE LET s1 == limpar_resultados([self EXCEPT !.caminho_imagem = caminho,
                                                  !.lbl_caminho = caminho,
                                                  !.btn_processar = TRUE])
             imagem_original_cv == imread(caminho)
         IN IF imagem_original_cv.nd
            THEN [s1 EXCEPT !.lbl_img_original = converter_cv2_para_qpixmap(imagem_original_cv),
                            !.erro = FALSE]
            ELSE [s1 EXCEPT !.erro = TRUE]

\* Lines 194-212.  Each detector is given its own copy of the image.
processar_imagem(self) ==
    IF self.caminho_imagem = None THEN self
    ELSE LET imagem_original == imread(self.caminho_imagem)
         IN IF ~imagem_original.nd THEN [self EXCEPT !.erro = TRUE]
            ELSE LET d == detectar_desmatamento(imagem_original)
                     f == detectar_focos_incendio(imagem_original)
                 IN [self EXCEPT
                        !.lbl_resultado_desmatamento = Mostra(d.total2 \div 2),
                        !.lbl_img_desmatamento = converter_cv2_para_qpixmap(d.imagem_resultado),
                        !.lbl_resultado_incendio = Mostra(f.focos_encontrados),
                        !.lbl_img_incendio = converter_cv2_para_qpixmap(f.imagem_resultado),
                        !.origem = self.caminho_imagem,
                        !.erro = FALSE]

\* A click on "Selecionar Imagem": the dialog returns a path or "".
SelecionarImagem ==
    /\ \E caminho \in Caminhos \cup {""} :
         app' = selecionar_e_exibir_imagem(app, caminho)
    /\ UNCHANGED <<det, morph, pix, disco>>

\* A click on "Processar Imagem", possible only while the button is enabled.
ProcessarImagem ==
    /\ app.btn_processar
    /\ app' = processar_imagem(app)
    /\ UNCHANGED <<det, morph, pix, disco>>

\* Outside the program: a file is deleted (at most MaxRemocoes times).
MaxRemocoes == 1

RemoverArquivo ==
    /\ Cardinality(Caminhos \ disco) < MaxRemocoes
    /\ \E c \in disco : disco' = disco \ {c}
    /\ UNCHANGED <<app, det, morph, pix>>

CarregarInvalida == CarregarDe({CenaNone, Cena("ndarray", 0, 0, Preto, <<>>)})

(***************************************************************************)
(* Single calls of cv2.morphologyEx, and of the fire detector's lines      *)
(* 80-93, on masks made of one or two rectangles.                          *)
(***************************************************************************)
LarguraMascara == 20
AlturaMascara == 18

Ret(x, y, w, h) == [x |-> x, y |-> y, w |-> w, h |-> h]

MaskDe(rets) ==
    Force([y \in 0..(AlturaMascara - 1) |-> [x \in 0..(LarguraMascara - 1) |->
        \E i \in 1..Len(rets) :
            /\ x \in rets[i].x..(rets[i].x + rets[i].w - 1)
            /\ y \in rets[i].y..(rets[i].y + rets[i].h - 1)]])

\* Two patches that survive the opening, B to the right of or below A.
ParesDeManchas ==
    {<<Ret(1, 1, 5, 5), Ret(6 + gx, 1 + dy, bw, 5)>> :
        gx \in 0..7, dy \in {0, 3, 8, 10}, bw \in {5, 6}}

Tamanhos == {<<3, 3>>, <<5, 5>>, <<5, 3>>, <<3, 5>>, <<7, 4>>}

\* One rectangle at, near and away from each border.
UmaMancha ==
    {<<Ret(x, y, t[1], t[2])>> :
        t \in Tamanhos,
        x \in {0, 2, 5, LarguraMascara - 7 - 2, LarguraMascara - 7},
        y \in {0, 2, 5, AlturaMascara - 5 - 2, AlturaMascara - 5}}

Mascaras ==
    ParesDeManchas \cup UmaMancha
    \cup {<<>>, <<Ret(0, 0, LarguraMascara, AlturaMascara)>>}

MorphInit ==
    [estado |-> "inicio", rets |-> <<>>, src |-> <<>>, op |-> "",
     pass1 |-> <<>>, dst |-> <<>>, focos_encontrados |-> 0]

CarregarMascara ==
    /\ morph.estado = "inicio"
    /\ \E d \in Mascaras :
         morph' = [MorphInit EXCEPT !.estado = "mascara", !.rets = d, !.src = MaskDe(d)]
    /\ UNCHANGED <<app, det, pix, disco>>

AplicarMorfologia ==
    /\ morph.estado = "mascara"
    /\ \E op \in {"MORPH_OPEN", "MORPH_CLOSE", "MORPH_DILATE"} :
         LET r == morphologyEx(morph.src, op)
         IN morph' = [morph EXCEPT !.estado = "morph", !.op = op,
                                   !.pass1 = r.pass1, !.dst = r.dst]
    /\ UNCHANGED <<app, det, pix, disco>>

ContarFocos ==
    /\ morph.estado = "mascara"
    /\ LET f == FocosDaMascara(morph.src)
       IN morph' = [morph EXCEPT !.estado = "contado", !.dst = f.mascara,
                                 !.focos_encontrados = Cardinality(f.mantidos)]
    /\ UNCHANGED <<app, det, pix, disco>>

NextMorph == CarregarMascara \/ AplicarMorfologia \/ ContarFocos

(***************************************************************************)
(* One pixel through lines 52-78 (a 1x1 image: the blur leaves it as it    *)
(* is).                                                                    *)
(***************************************************************************)
Niveis == {0, 17, 128, 214, 215, 255}

PixInit ==
    [estado |-> "inicio", bgr |-> <<0, 0, 0>>, hsv |-> <<0, 0, 0>>,
     mask_hue |-> FALSE, mask_val |-> FALSE, mascara_final |-> FALSE]

EscolherPixel ==
    /\ pix.estado = "inicio"
    /\ \E b \in Niveis, g \in Niveis, r \in Niveis :
         pix' = [PixInit EXCEPT !.estado = "pixel", !.bgr = <<b, g, r>>]
    /\ UNCHANGED <<app, det, morph, disco>>

Limiarizar ==
    /\ pix.estado = "pixel"
    /\ LET imagem == [nd |-> TRUE, w |-> 1, h |-> 1, px |-> [y \in {0} |-> [x \in {0} |-> pix.bgr]]]
           hsv == cvtColor(GaussianBlur(imagem))
           m == MascarasFogo(hsv)
       IN pix' = [pix EXCEPT !.estado = "limiar", !.hsv = hsv.px[0][0],
                             !.mask_hue = m.mask_hue[0][0],
                             !.mask_val = m.mask_val[0][0],
                             !.mascara_final = m.mascara_final[0][0]]
    /\ UNCHANGED <<app, det, morph, disco>>

NextPixel == EscolherPixel \/ Limiarizar

Init ==
    /\ app = AppInit /\ det = DetInit /\ morph = MorphInit /\ pix = PixInit
    /\ disco = Caminhos

Next ==
    \/ SelecionarImagem \/ ProcessarImagem \/ RemoverArquivo
    \/ CarregarInvalida \/ ChamarDesmatamento \/ ChamarFocos

Spec == Init /\ [][Next]_vars

NextDet == Carregar \/ ChamarDesmatamento \/ ChamarFocos

SpecDet == Init /\ [][NextDet]_vars

SpecMorph == Init /\ [][NextMorph]_vars

SpecPixel == Init /\ [][NextPixel]_vars

(***************************************************************************)
(* Properties of the detectors, checked under SpecDet.                     *)
(***************************************************************************)
Retornos == {det.ret_desmat, det.ret_focos}

\* The image has exactly w columns, h rows and three channels.
Forma(img, w, h) ==
    /\ img.w = w /\ img.h = h
    /\ DOMAIN img.px = 0..(h - 1)
    /\ \A y \in 0..(h - 1) :
         /\ DOMAIN img.px[y] = 0..(w - 1)
         /\ \A x \in 0..(w - 1) : DOMAIN img.px[y][x] = 1..3

\* C1: for every valid input of width W and height H, the annotated image
\* each detector returns has width W, height H and three channels,
\* whatever regions were found or annotated.
C1_DimensoesPreservadas ==
    \A r \in Retornos :
        r.estado = "ok" => Forma(r.imagem_resultado, det.cena.w, det.cena.h)

\* Both detectors annotated a region whose rectangle reaches past the image.
C1_Witness ==
    /\ det.ret_desmat.estado = "ok" /\ det.ret_focos.estado = "ok"
    /\ \E c \in det.ret_desmat.mantidos : TRUE
    /\ \E c \in det.ret_focos.mantidos :
         boundingRect(c).x + boundingRect(c).w >= det.cena.w

\* C2: the total exposed area detectar_desmatamento returns is at least 0
\* and at most W*H (total2 is the doubled area).
C2_AreaLimitada ==
    det.ret_desmat.estado = "ok" =>
        /\ det.ret_desmat.total2 >= 0
        /\ det.ret_desmat.total2 <= 2 * det.cena.w * det.cena.h

\* A kept region with a hole (the frame scene) contributes its outer area.
C2_Witness ==
    /\ det.ret_desmat.estado = "ok"
    /\ det.ret_desmat.total2 = 2 * (det.cena.w - 1) * (det.cena.h - 1)
    /\ det.ret_desmat.mantidos # {}
    /\ ~det.ret_desmat.mascara[det.cena.h \div 2][det.cena.w \div 2]

\* C3: neither detector modifies the buffer it is given: after any calls
\* the caller's buffer still holds the pixels it was made with; the
\* rectangles and labels are only in the returned copy, which differs from
\* the input exactly when a region was kept.
C3_EntradaIntacta ==
    /\ det.imagem = Render(det.cena)
    /\ \A r \in Retornos :
         r.estado = "ok" => ((r.imagem_resultado # det.imagem) <=> (r.mantidos # {}))

\* Both detectors ran on one buffer and both drew on their copies.
C3_Witness ==
    /\ det.ret_desmat.estado = "ok" /\ det.ret_focos.estado = "ok"
    /\ det.ret_desmat.mantidos # {} /\ det.ret_focos.mantidos # {}
    /\ det.ret_desmat.imagem_resultado # det.ret_focos.imagem_resultado

\* The scene is one solid n-by-n square of colour cor on background fundo.
UmQuadrado(c, fundo, cores) ==
    /\ c.tipo = "ndarray" /\ c.fundo = fundo /\ Len(c.manchas) = 1
    /\ c.manchas[1].cor \in cores /\ c.manchas[1].w = c.manchas[1].h

\* The square lies at least three pixels from every border.
Interior(c) ==
    LET m == c.manchas[1]
    IN m.x >= 3 /\ m.y >= 3 /\ m.x + m.w + 3 <= c.w /\ m.y + m.h + 3 <= c.h

\* C5 (as found in the code): for one solid soil-coloured square the mask
\* has one external region, a solid rectangle; its area is that of the
\* polygon through its border pixels, (w-1)*(h-1), and it is kept, drawn
\* and added to the total exactly when that area is strictly greater than
\* 500.  Away from the border the region is the square itself, so a 30x30
\* square is kept with area 841, a 24x24 one with 529, and a 23x23 (484) or
\* 10x10 one is dropped; at any position 30x30 gives one kept region and
\* 10x10 none.
C5_AreaDoPoligono ==
    LET r == det.ret_desmat
        n == det.cena.manchas[1].w
    IN (r.estado = "ok" /\ UmQuadrado(det.cena, Cinza, {Ocre}) /\ n < det.cena.w) =>
        /\ Cardinality(r.contornos) = 1
        /\ \A c \in r.contornos :
             LET b == boundingRect(c)
                 area == (b.w - 1) * (b.h - 1)
             IN /\ Cardinality(c) = b.w * b.h
                /\ (c \in r.mantidos) <=> (area > AREA_MIN_SOLO)
                /\ r.total2 = IF area > AREA_MIN_SOLO THEN 2 * area ELSE 0
                /\ (r.imagem_resultado # det.imagem) <=> (area > AREA_MIN_SOLO)
                /\ Interior(det.cena) => b = [x |-> 3, y |-> 3, w |-> n, h |-> n]
        /\ n = 30 => Cardinality(r.mantidos) = 1
        /\ n = 10 => r.mantidos = {}

\* A 23x23 square away from the border was processed and dropped.
C5_Witness ==
    /\ det.ret_desmat.estado = "ok"
    /\ UmQuadrado(det.cena, Cinza, {Ocre}) /\ Interior(det.cena)
    /\ det.cena.manchas[1].w = 23
    /\ det.ret_desmat.mantidos = {} /\ det.ret_desmat.total2 = 0

\* C5 as claimed: a region is kept exactly when the number of pixels it
\* encloses is strictly greater than 500, and the total is the sum of those
\* pixel counts.
C5_AreaEmPixels ==
    LET r == det.ret_desmat
    IN r.estado = "ok" =>
        /\ \A c \in r.contornos : (c \in r.mantidos) <=> (Cardinality(c) > AREA_MIN_SOLO)
        /\ r.total2 = 2 * Cardinality(UNION r.mantidos)

\* Hue inside the fire ranges (pure white has hue 0).
CoresDeFogo == {Branco, BrancoQuente, BrancoRosado}

Resultados(a) ==
    <<a.lbl_resultado_desmatamento, a.lbl_resultado_incendio,
      a.lbl_img_desmatamento, a.lbl_img_incendio>>

SemResultados(a) ==
    /\ a.lbl_resultado_desmatamento.vazio /\ a.lbl_resultado_incendio.vazio
    /\ ~a.lbl_img_desmatamento.pixmap /\ ~a.lbl_img_incendio.pixmap

\* C4: a detector given no image or a zero-dimension image fails (cv2.error,
\* the code's form of InvalidImageFormat) and returns nothing, neither an
\* annotated image nor a scalar, and leaves the buffer as it was; in the
\* window, a Process click whose image cannot be read shows the error
\* dialog, displays nothing new and leaves what was displayed unchanged.
C4_SemResultadoParcial ==
    /\ [](\A r \in Retornos :
            (r.estado # "nao_chamado" /\ ~(det.imagem.nd /\ det.imagem.w > 0 /\ det.imagem.h > 0))
                => (r = [estado |-> "erro"] /\ det.imagem = Render(det.cena)))
    /\ [][(~imread(app.caminho_imagem).nd /\ ProcessarImagem)
            => (app'.erro /\ Resultados(app') = Resultados(app)
                /\ app'.caminho_imagem = app.caminho_imagem)]_vars

\* Both detectors failed on a zero-dimension ndarray, and a Process click
\* failed while earlier results were on display.
C4_Witness ==
    /\ det.imagem.nd /\ det.imagem.w = 0
    /\ det.ret_desmat.estado = "erro" /\ det.ret_focos.estado = "erro"
    /\ app.erro /\ ~SemResultados(app) /\ app.caminho_imagem \notin disco

\* C10: the Process button is enabled only when a path is set; whatever
\* result is displayed was computed from the currently selected path (and
\* equals what the detectors give for that file while it is unchanged);
\* selecting a path clears both result displays; a cancelled dialog
\* changes nothing.
C10_ResultadosDoCaminhoAtual ==
    /\ [](app.btn_processar => app.caminho_imagem # None)
    /\ [](~SemResultados(app) =>
            /\ app.origem = app.caminho_imagem
            /\ ~app.lbl_resultado_desmatamento.vazio /\ ~app.lbl_resultado_incendio.vazio
            /\ app.caminho_imagem \in disco =>
                 LET img == imread(app.caminho_imagem)
                 IN /\ app.lbl_resultado_desmatamento.valor
                         = detectar_desmatamento(img).total2 \div 2
                    /\ app.lbl_resultado_incendio.valor
                         = detectar_focos_incendio(img).focos_encontrados)
    /\ [][(app'.caminho_imagem # app.caminho_imagem) => SemResultados(app')]_vars
    /\ [][\A c \in Caminhos :
            (app'.caminho_imagem = c /\ app' = selecionar_e_exibir_imagem(app, c))
                => SemResultados(app')]_vars
    /\ [][app' = selecionar_e_exibir_imagem(app, "") => app' = app]_vars

\* Results of one file are on display, with a non-zero area.
C10_Witness ==
    /\ app.caminho_imagem = "solo" /\ app.btn_processar
    /\ app.lbl_resultado_desmatamento = Mostra((LadoArquivoSolo - 1) * (LadoArquivoSolo - 1))
    /\ app.lbl_img_desmatamento.pixmap

(***************************************************************************)
(* Properties of the thresholds (SpecPixel) and of the morphology          *)
(* (SpecMorph).                                                            *)
(***************************************************************************)
HueDeFogo(h) == h \in 0..20 \/ h \in 170..180

\* C6: a pixel of the blurred HSV image is a fire candidate before the
\* morphology if and only if its hue is in [0,20] or [170,180] and its
\* value is at least 215, whatever its saturation; hue 2 and hue 178 pass
\* the hue test and hue 90 does not.
C6_CandidatoDeFogo ==
    pix.estado = "limiar" =>
        /\ pix.mascara_final <=> (HueDeFogo(pix.hsv[1]) /\ pix.hsv[3] >= 215)
        /\ pix.mask_hue <=> HueDeFogo(pix.hsv[1])
        /\ pix.hsv[1] \in {2, 178} => pix.mask_hue
        /\ pix.hsv[1] = 90 => ~pix.mask_hue

\* A bright pixel of hue 178 (the wrap-around range) is a candidate.
C6_Witness ==
    pix.estado = "limiar" /\ pix.hsv[1] = 178 /\ pix.hsv[3] >= 215 /\ pix.mascara_final

\* The pixels of the 5x5 neighbourhood of (x, y) that are inside the mask.
Vizinhanca(m, x, y) ==
    {<<x + dx, y + dy>> : dx \in -Raio..Raio, dy \in -Raio..Raio}
        \cap (MaskCols(m) \X MaskRows(m))

\* b is a eroded: a pixel stays when every neighbour inside the image is set.
ErosaoIgnoraFora(a, b) ==
    \A y \in MaskRows(a) : \A x \in MaskCols(a) :
        b[y][x] <=> \A q \in Vizinhanca(a, x, y) : a[q[2]][q[1]]

\* b is a eroded with the outside as background: a pixel stays only when
\* its whole neighbourhood is inside the image and set.
ErosaoForaEFundo(a, b) ==
    \A y \in MaskRows(a) : \A x \in MaskCols(a) :
        b[y][x] <=> /\ Cardinality(Vizinhanca(a, x, y)) = KSIZE * KSIZE
                    /\ \A q \in Vizinhanca(a, x, y) : a[q[2]][q[1]]

\* b is a dilated: a pixel is set when some neighbour inside the image is.
DilatacaoForaEFundo(a, b) ==
    \A y \in MaskRows(a) : \A x \in MaskCols(a) :
        b[y][x] <=> \E q \in Vizinhanca(a, x, y) : a[q[2]][q[1]]

Contido(a, b) == \A y \in MaskRows(a) : \A x \in MaskCols(a) : a[y][x] => b[y][x]

\* C9 (as found in the code): in a dilation pixels outside the image count
\* as background; in an erosion they are ignored, so a foreground pixel
\* near the edge survives when all its neighbours inside the image are
\* foreground.  Hence an opening never adds pixels, and a closing extends a
\* rectangle that lies one or two pixels from the left edge up to that edge.
C9_BordaDaMorfologia ==
    morph.estado = "morph" =>
        /\ morph.op = "MORPH_OPEN" =>
             /\ ErosaoIgnoraFora(morph.src, morph.pass1)
             /\ DilatacaoForaEFundo(morph.pass1, morph.dst)
             /\ Contido(morph.dst, morph.src)
        /\ morph.op = "MORPH_CLOSE" =>
             /\ DilatacaoForaEFundo(morph.src, morph.pass1)
             /\ ErosaoIgnoraFora(morph.pass1, morph.dst)
             /\ Contido(morph.src, morph.dst)
             /\ (Len(morph.rets) = 1 /\ morph.rets[1].x \in 1..2)
                   => morph.dst[morph.rets[1].y][0]
        /\ morph.op = "MORPH_DILATE" =>
             DilatacaoForaEFundo(morph.src, morph.dst)

\* The erosion of an opening kept a corner pixel of the image.
C9_Witness ==
    /\ morph.estado = "morph" /\ morph.op = "MORPH_OPEN"
    /\ Len(morph.rets) = 1 /\ morph.rets[1].w = 3
    /\ morph.pass1[0][0] /\ morph.dst[0][0]

\* C9 as claimed: outside pixels are background in every pass, so no
\* pixel whose neighbourhood leaves the image survives an erosion.
C9_ForaComoFundo ==
    morph.estado = "morph" =>
        /\ morph.op = "MORPH_OPEN" =>
             /\ ErosaoForaEFundo(morph.src, morph.pass1)
             /\ DilatacaoForaEFundo(morph.pass1, morph.dst)
        /\ morph.op = "MORPH_CLOSE" =>
             /\ DilatacaoForaEFundo(morph.src, morph.pass1)
             /\ ErosaoForaEFundo(morph.pass1, morph.dst)
        /\ morph.op = "MORPH_DILATE" =>
             DilatacaoForaEFundo(morph.src, morph.dst)

\* The number of background columns or rows between two rectangles.
Gap(a, b) ==
    Max2(Max2(b.x - (a.x + a.w), a.x - (b.x + b.w)),
         Max2(Max2(b.y - (a.y + a.h), a.y - (b.y + b.h)), 0))

\* C8 (as found in the code): two patches that survive the opening are
\* reported as one region when the gap between them is at most 4 pixels
\* (twice the 2-pixel radius of the 5x5 element: both patches grow towards
\* each other) and as two regions when the gap is 5 pixels or more.
C8_FusaoDeFocos ==
    (morph.estado = "contado" /\ Len(morph.rets) = 2) =>
        morph.focos_encontrados
            = IF Gap(morph.rets[1], morph.rets[2]) <= 2 * Raio THEN 1 ELSE 2

\* Two patches four pixels apart were reported as one region.
C8_Witness ==
    /\ morph.estado = "contado" /\ Len(morph.rets) = 2
    /\ Gap(morph.rets[1], morph.rets[2]) = 2 * Raio
    /\ morph.focos_encontrados = 1

\* C8 as claimed, the reach of the element being its radius: one region
\* for a gap narrower than the radius, two for a larger gap.
C8_AlcanceDoRaio ==
    (morph.estado = "contado" /\ Len(morph.rets) = 2
        /\ Gap(morph.rets[1], morph.rets[2]) >= 1) =>
        /\ Gap(morph.rets[1], morph.rets[2]) < Raio => morph.focos_encontrados = 1
        /\ Gap(morph.rets[1], morph.rets[2]) > Raio => morph.focos_encontrados = 2

=============================================================================
